---- MODULE Spec2Model ----
(***************************************************************************)
(* paletti: colour palette extraction by k-means clustering.               *)
(*                                                                         *)
(* The model follows src/paletti/paletti.py (kmeans_palette, get_palette). *)
(* One extraction is a process that walks through the statements of        *)
(* get_palette / kmeans_palette; two processes share the file system.      *)
(*                                                                         *)
(* Numbers: samples are integer vectors, a centroid is the exact mean      *)
(* kept as (sum, n), floats are exact rationals <<num, den>>.              *)
(* Arrays keep their numpy shape, so squeeze(), len() and indexing act on  *)
(* the shape as numpy does.                                                *)
(*                                                                         *)
(* sklearn.cluster.KMeans is a library: it is modelled as the algorithm    *)
(* the call on line 29 selects by its defaults (k-means++ seeding from the *)
(* process-wide numpy random state, Lloyd iterations, relocation of empty  *)
(* clusters, stop on zero centre shift or max_iter).  n_init restarts keep *)
(* one of the runs, so every result of a single run is a possible result.  *)
(***************************************************************************)
EXTENDS Integers, Sequences, FiniteSets, TLC

\* ------------------------------------------------------------ bounds
MaxPixels == 3          \* small images: at most this many pixels
MaxK == 3               \* requested palette sizes go up to MaxK + 1
MaxDistinct == 5        \* images of pairwise distinct colours: at most this long

\* ------------------------------------------------------------ program constants
RSIZE == 600
max_iter == 300

\* ------------------------------------------------------------ arithmetic
RECURSIVE GCD(_, _)
GCD(a, b) == IF b = 0 THEN a ELSE GCD(b, a % b)

\* the rational n/d (d > 0) in lowest terms
Frac(n, d) ==
    LET g == GCD(IF n < 0 THEN -n ELSE n, d)
    IN  <<n \div g, d \div g>>

RLess(a, b) == a[1] * b[2] < b[1] * a[2]
REq(a, b) == a[1] * b[2] = b[1] * a[2]
RAdd(a, b) == Frac(a[1] * b[2] + b[1] * a[2], a[2] * b[2])
RDiv(a, b) == Frac(a[1] * b[2], a[2] * b[1])

RECURSIVE RSum(_)
RSum(s) == IF s = <<>> THEN <<0, 1>> ELSE RAdd(Head(s), RSum(Tail(s)))

SeqMin(s) == CHOOSE x \in {s[i] : i \in DOMAIN s} : \A i \in DOMAIN s : x <= s[i]
SeqMax(s) == CHOOSE x \in {s[i] : i \in DOMAIN s} : \A i \in DOMAIN s : x >= s[i]

Range(s) == {s[i] : i \in DOMAIN s}

\* ------------------------------------------------------------ colour space
\* utils.rgb2lab / utils.lab2rgb are not part of the listed sources; they are
\* a pixel-wise pair, inverse of each other up to rounding, the inverse
\* clamped to the display range.
LabOffset == <<0, 255, 255>>

Clamp(v) == IF v < 0 THEN 0 ELSE IF v > 255 THEN 255 ELSE v

rgb2lab(c) == [j \in 1..3 |-> 2 * c[j] - LabOffset[j]]

\* a centroid is the mean sum/n; the result is the nearest 8-bit value
\* (0 for a mean of no samples, which is not a number)
lab2rgb(c) ==
    [j \in 1..3 |->
        IF c.n = 0 THEN 0
        ELSE Clamp((c.sum[j] + LabOffset[j] * c.n + c.n) \div (2 * c.n))]

\* astype('float64') / 255.
ToUnit(v) == <<v, 255>>

\* (x * 255).astype('uint8')
ToUint8(x) == (x[1] * 255) \div x[2]

\* ------------------------------------------------------------ numpy arrays
\* an array is [shape, data]: data is the flat row-major sequence
Squeeze(a) == [shape |-> SelectSeq(a.shape, LAMBDA d : d # 1), data |-> a.data]

ArrLen(a) == a.shape[1]

\* a[i], i counted from 0
ArrIndex(a, i) ==
    IF Len(a.shape) = 2
    THEN [shape |-> <<a.shape[2]>>,
          data |-> SubSeq(a.data, i * a.shape[2] + 1, (i + 1) * a.shape[2])]
    ELSE [shape |-> <<>>, data |-> <<a.data[i + 1]>>]

\* the value stored by  row[:] = v  into a row of 3 numbers (broadcasting)
Broadcast3(v) ==
    IF v.shape = <<>> THEN <<v.data[1], v.data[1], v.data[1]>> ELSE v.data

\* ------------------------------------------------------------ files
NoFile == [shape |-> <<0, 0>>, px |-> <<>>]

\* osp.splitext(fname)[0] is the stem
ClusteredName(f) == [stem |-> f.stem \o "_clustered", ext |-> ".png"]

\* origimg.thumbnail((RSIZE, RSIZE)): an image within RSIZE x RSIZE is kept
\* as it is (larger images, resampled by PIL, are outside the bounds)
Thumbnail(im) ==
    IF im.shape[1] <= RSIZE /\ im.shape[2] <= RSIZE THEN im ELSE im

\* ------------------------------------------------------------ k-means
\* squared Euclidean distance of sample x to centroid c, as a rational
Dist2(x, c) ==
    LET d(j) == x[j] * c.n - c.sum[j]
    IN  <<d(1) * d(1) + d(2) * d(2) + d(3) * d(3), c.n * c.n>>

\* (mutant) argmin counted from 1
NearestOneBased(x, cs) ==
    CHOOSE j \in 1..Len(cs) :
        /\ \A l \in 1..Len(cs) : ~RLess(Dist2(x, cs[l]), Dist2(x, cs[j]))
        /\ \A l \in 1..(j - 1) : RLess(Dist2(x, cs[j]), Dist2(x, cs[l]))

\* argmin over the centroids: the first nearest one, counted from 0
Nearest(x, cs) ==
    (CHOOSE j \in 1..Len(cs) :
        /\ \A l \in 1..Len(cs) : ~RLess(Dist2(x, cs[l]), Dist2(x, cs[j]))
        /\ \A l \in 1..(j - 1) : RLess(Dist2(x, cs[j]), Dist2(x, cs[l]))) - 1

\* the distance of x to its nearest centroid (the distances the assignment
\* step hands to the update step)
MinDist2(x, cs) ==
    LET ds == {Dist2(x, cs[j]) : j \in 1..Len(cs)}
    IN  CHOOSE d \in ds : \A e \in ds : ~RLess(e, d)

\* the assignment step, also kmeans.predict
Predict(X, cs) == [i \in 1..Len(X) |-> Nearest(X[i], cs)]

Members(labels, j) == {i \in DOMAIN labels : labels[i] = j}

RECURSIVE SumCoord(_, _, _)
SumCoord(X, S, j) ==
    IF S = {} THEN 0
    ELSE LET i == CHOOSE i \in S : TRUE
         IN  X[i][j] + SumCoord(X, S \ {i}, j)

VecSum(X, S) == [j \in 1..3 |-> SumCoord(X, S, j)]

EmptyClusters(labels, k) == {j \in 0..(k - 1) : Members(labels, j) = {}}

\* the samples farthest from their own centroid, farthest first:
\* distances.argsort()[::-1].  numpy sorts an array this short by insertion,
\* which keeps equal distances in index order; reversed, the higher index of
\* two equal distances comes first
FarBefore(dist, a, b) ==
    RLess(dist[b], dist[a]) \/ (REq(dist[a], dist[b]) /\ a > b)

FarFromCenters(dist) ==
    [r \in DOMAIN dist |->
        CHOOSE i \in DOMAIN dist :
            Cardinality({o \in DOMAIN dist : FarBefore(dist, o, i)}) = r - 1]

\* (mutant) the update step without relocation: the mean of no samples
CentersDenseNoRelocation(X, labels, k, far) ==
    [j \in 1..k |->
        [sum |-> VecSum(X, Members(labels, j - 1)),
         n |-> Cardinality(Members(labels, j - 1))]]

\* the update step: the mean of the members; the i-th empty cluster moves to
\* the i-th farthest sample
CentersDense(X, labels, k, far) ==
    LET empty == EmptyClusters(labels, k)
        rank(j) == Cardinality({e \in empty : e < j}) + 1
    IN  [j \in 1..k |->
            IF (j - 1) \in empty
            THEN [sum |-> X[far[rank(j - 1)]], n |-> 1]
            ELSE [sum |-> VecSum(X, Members(labels, j - 1)),
                  n |-> Cardinality(Members(labels, j - 1))]]

SameCentre(a, b) == \A j \in 1..3 : a.sum[j] * b.n = b.sum[j] * a.n

\* (mutant) a tolerance every shift passes
NoShiftLoose(old, new) == \A j \in DOMAIN old : new[j].n >= 0

\* shift = squared_norm(centers_old - centers) is within the tolerance.  The
\* tolerance is 1e-4 times the mean variance of the samples; two different
\* means of at most 10 of these integer samples are further apart than
\* that, so within the bounds the test is shift = 0
NoShift(old, new) == \A j \in DOMAIN old : SameCentre(old[j], new[j])

\* k-means++: the first seed is any sample, each later one a sample at a
\* positive distance from the seeds so far (index 0 when there is none)
SeedCandidates(X, cs) ==
    IF cs = <<>> THEN DOMAIN X
    ELSE LET far == {i \in DOMAIN X : \A j \in DOMAIN cs : Dist2(X[i], cs[j])[1] > 0}
         IN  IF far = {} THEN {1} ELSE far

\* ------------------------------------------------------------ histogram
\* (mutant) the last bin half-open like the others
BinOfHalfOpen(x, mn, mx, bins) ==
    LET lo2 == IF mn = mx THEN 2 * mn - 1 ELSE 2 * mn
        hi2 == IF mn = mx THEN 2 * mx + 1 ELSE 2 * mx
    IN  ((2 * x - lo2) * bins) \div (hi2 - lo2)

\* np.histogram(a, bins=bins, normed=True)[0]: bins equal-width bins over
\* [min(a), max(a)] (over [min - 0.5, max + 0.5] when they are equal), the
\* last bin closed; counts divided by (total * bin width)
BinOf(x, mn, mx, bins) ==
    LET lo2 == IF mn = mx THEN 2 * mn - 1 ELSE 2 * mn
        hi2 == IF mn = mx THEN 2 * mx + 1 ELSE 2 * mx
        i == ((2 * x - lo2) * bins) \div (hi2 - lo2)
    IN  IF i = bins THEN bins - 1 ELSE i

Histogram(a, bins) ==
    LET mn == SeqMin(a)
        mx == SeqMax(a)
        span2 == IF mn = mx THEN 2 ELSE 2 * (mx - mn)
        n == [b \in 1..bins |->
                Cardinality({i \in DOMAIN a : BinOf(a[i], mn, mx, bins) = b - 1})]
    IN  [b \in 1..bins |-> Frac(n[b] * 2 * bins, Len(a) * span2)]

\* percent /= float(percent.sum())
Normalized(h) == LET s == RSum(h) IN [b \in DOMAIN h |-> RDiv(h[b], s)]

\* ------------------------------------------------------------ inputs
Procs == {1, 2}

PngA == [stem |-> "a", ext |-> ".png"]
JpgA == [stem |-> "a", ext |-> ".jpg"]
PngB == [stem |-> "b", ext |-> ".png"]
InputNames == {PngA, JpgA, PngB}
FileNames == InputNames \cup {ClusteredName(f) : f \in InputNames}

Methods == {"k-means", "colorific", "pil", "pictaculous", "median-cut"}

BaseColors == {<<0, 0, 0>>, <<4, 0, 0>>, <<0, 4, 2>>}
GridColors ==
    {<<0, 0, 0>>, <<0, 1, 0>>, <<0, 2, 0>>, <<3, 0, 0>>, <<3, 1, 0>>, <<3, 2, 1>>}

Shapes(n) == {s \in (1..n) \X (1..n) : s[1] * s[2] = n}

ImagesOf(n, colors) ==
    {[shape |-> s, px |-> q] : s \in Shapes(n), q \in [1..n -> colors]}

\* every image of at most MaxPixels pixels over BaseColors
SmallImages == UNION {ImagesOf(n, BaseColors) : n \in 1..MaxPixels}

\* lexicographic order of colours
ColorLess(a, b) ==
    \/ a[1] < b[1]
    \/ a[1] = b[1] /\ a[2] < b[2]
    \/ a[1] = b[1] /\ a[2] = b[2] /\ a[3] < b[3]

\* one row of 3 to MaxDistinct pixels of GridColors, each colour at most
\* once, in ascending order
DistinctImages ==
    UNION {{[shape |-> <<1, n>>, px |-> q] :
               q \in {q \in [1..n -> GridColors] :
                         \A a, b \in 1..n : a < b => ColorLess(q[a], q[b])}} :
           n \in 3..MaxDistinct}

\* two colours of BaseColors, 7 pixels of one and 3 of the other
TwoColorImages ==
    {[shape |-> s, px |-> [i \in 1..10 |-> IF i \in m THEN c[2] ELSE c[1]]] :
        s \in Shapes(10),
        c \in {c \in BaseColors \X BaseColors : c[1] # c[2]},
        m \in {m \in SUBSET (1..10) : Cardinality(m) = 3}}

KRange == (-1)..(MaxK + 1)

\* ------------------------------------------------------------ state
VARIABLES fs, pc, fname, k, method, shape, imarr, centers, iter, labels,
          maincolors, clustered, result

vars == <<fs, pc, fname, k, method, shape, imarr, centers, iter, labels,
          maincolors, clustered, result>>

EmptyArr == [shape |-> <<>>, data |-> <<>>]
Outcome(kind, colors, percent) ==
    [kind |-> kind, colors |-> colors, percent |-> percent]
Pending == Outcome("pending", EmptyArr, <<>>)

\* the state before the calls: process p is about to call
\* get_palette(names[p], k=ks[p], method=ms[p]); "idle" makes no call
Setup(files, pcs, names, ks, ms) ==
    /\ fs = files
    /\ pc = pcs
    /\ fname = names
    /\ k = ks
    /\ method = ms
    /\ shape = [p \in Procs |-> <<0, 0>>]
    /\ imarr = [p \in Procs |-> <<>>]
    /\ centers = [p \in Procs |-> <<>>]
    /\ iter = [p \in Procs |-> 0]
    /\ labels = [p \in Procs |-> <<>>]
    /\ maincolors = [p \in Procs |-> EmptyArr]
    /\ clustered = [p \in Procs |-> NoFile]
    /\ result = [p \in Procs |-> Pending]

OneFile(f, im) == [g \in FileNames |-> IF g = f THEN im ELSE NoFile]

Single(im, kk, m) ==
    Setup(OneFile(PngA, im), [p \in Procs |-> IF p = 1 THEN "call" ELSE "idle"],
          [p \in Procs |-> PngA], [p \in Procs |-> kk], [p \in Procs |-> m])

\* one call: on a small image or a missing file, with any k and method; or
\* a k-means call on a row of distinct colours
Init ==
    \/ \E im \in SmallImages \cup {NoFile}, kk \in KRange, m \in Methods :
          Single(im, kk, m)
    \/ \E im \in DistinctImages, kk \in 1..MaxK : Single(im, kk, "k-means")

\* one k-means call with k = 2 on a 70/30 two-colour image
InitTwoColor == \E im \in TwoColorImages : Single(im, 2, "k-means")

\* two concurrent k-means calls with k = 2 on the files a.png, a.jpg, b.png
ConcFiles ==
    [g \in FileNames |->
        IF g = PngA THEN [shape |-> <<1, 2>>, px |-> <<<<0, 0, 0>>, <<4, 0, 0>>>>]
        ELSE IF g = JpgA THEN [shape |-> <<2, 1>>, px |-> <<<<0, 4, 2>>, <<4, 0, 0>>>>]
        ELSE IF g = PngB THEN [shape |-> <<1, 2>>, px |-> <<<<0, 0, 0>>, <<4, 0, 0>>>>]
        ELSE NoFile]

InitConc ==
    \E names \in [Procs -> InputNames], ks \in [Procs -> {2}] :
        Setup(ConcFiles, [p \in Procs |-> "call"], names, ks,
              [p \in Procs |-> "k-means"])

\* ------------------------------------------------------------ operations
Raise(p, err) ==
    /\ pc' = [pc EXCEPT ![p] = "raised"]
    /\ result' = [result EXCEPT ![p] = Outcome(err, EmptyArr, <<>>)]

\* get_palette: dispatch on the method; no branch for an unknown method,
\* so the call returns None
GetPalette(p) ==
    /\ pc[p] = "call"
    /\ IF method[p] = "k-means"
       THEN pc' = [pc EXCEPT ![p] = "kmeans"] /\ UNCHANGED result
       ELSE /\ pc' = [pc EXCEPT ![p] = "returned"]
            /\ result' = [result EXCEPT ![p] =
                  IF method[p] \in {"colorific", "pil", "pictaculous"}
                  THEN Outcome("Delegated", EmptyArr, <<>>)
                  ELSE Outcome("None", EmptyArr, <<>>)]
    /\ UNCHANGED <<fs, fname, k, method, shape, imarr, centers, iter, labels,
                   maincolors, clustered>>

\* lines 22-27: open, thumbnail, rgb2lab, flatten to (w * h, 3)
OpenImage(p) ==
    /\ pc[p] = "kmeans"
    /\ IF fs[fname[p]] = NoFile
       THEN Raise(p, "IOError") /\ UNCHANGED <<shape, imarr>>
       ELSE LET im == Thumbnail(fs[fname[p]])
            IN  /\ shape' = [shape EXCEPT ![p] = im.shape]
                /\ imarr' = [imarr EXCEPT ![p] =
                      [i \in 1..Len(im.px) |-> rgb2lab(im.px[i])]]
                /\ pc' = [pc EXCEPT ![p] = "opened"]
                /\ UNCHANGED result
    /\ UNCHANGED <<fs, fname, k, method, centers, iter, labels, maincolors,
                   clustered>>

\* line 29, KMeans(n_clusters=k).fit: the library rejects a k it cannot seed
FitCheck(p) ==
    /\ pc[p] = "opened"
    /\ IF k[p] < 1 \/ k[p] > Len(imarr[p])
       THEN Raise(p, "KMeansError")
       ELSE pc' = [pc EXCEPT ![p] = "seeding"] /\ UNCHANGED result
    /\ UNCHANGED <<fs, fname, k, method, shape, imarr, centers, iter, labels,
                   maincolors, clustered>>

\* line 29, seeding: one more initial centre, drawn with the process-wide
\* random state (no random_state is passed)
Seed(p) ==
    /\ pc[p] = "seeding"
    /\ \E i \in SeedCandidates(imarr[p], centers[p]) :
          LET cs == Append(centers[p], [sum |-> imarr[p][i], n |-> 1])
          IN  /\ centers' = [centers EXCEPT ![p] = cs]
              /\ pc' = [pc EXCEPT ![p] = IF Len(cs) = k[p] THEN "lloyd" ELSE "seeding"]
    /\ UNCHANGED <<fs, fname, k, method, shape, imarr, iter, labels,
                   maincolors, clustered, result>>

\* line 29, one iteration: assign, update, compare the centres
LloydIter(p) ==
    /\ pc[p] = "lloyd"
    /\ \E labs \in {Predict(imarr[p], centers[p])} :
       \E dist \in {[i \in DOMAIN imarr[p] |-> MinDist2(imarr[p][i], centers[p])]} :
       \E far \in {IF EmptyClusters(labs, k[p]) = {} THEN <<>> ELSE FarFromCenters(dist)} :
       \E new \in {CentersDense(imarr[p], labs, k[p], far)} :
          /\ labels' = [labels EXCEPT ![p] = labs]
          /\ centers' = [centers EXCEPT ![p] = new]
          /\ iter' = [iter EXCEPT ![p] = iter[p] + 1]
          /\ pc' = [pc EXCEPT ![p] =
                IF NoShift(centers[p], new) \/ iter[p] + 1 >= max_iter
                THEN "fitted" ELSE "lloyd"]
    /\ UNCHANGED <<fs, fname, k, method, shape, imarr, maincolors, clustered,
                   result>>

\* line 30: labels = kmeans.predict(imarr)
PredictLabels(p) ==
    /\ pc[p] = "fitted"
    /\ labels' = [labels EXCEPT ![p] = Predict(imarr[p], centers[p])]
    /\ pc' = [pc EXCEPT ![p] = "predicted"]
    /\ UNCHANGED <<fs, fname, k, method, shape, imarr, centers, iter,
                   maincolors, clustered, result>>

RECURSIVE Flatten(_)
Flatten(rows) == IF rows = <<>> THEN <<>> ELSE Head(rows) \o Flatten(Tail(rows))

\* lines 31-34: expand_dims to (1, k, 3), lab2rgb, squeeze, / 255.
DisplayColors(cs) ==
    LET rgb == [shape |-> <<1, Len(cs), 3>>,
                data |-> Flatten([j \in 1..Len(cs) |-> lab2rgb(cs[j])])]
        sq == Squeeze(rgb)
    IN  [shape |-> sq.shape, data |-> [i \in DOMAIN sq.data |-> ToUnit(sq.data[i])]]

ToDisplay(p) ==
    /\ pc[p] = "predicted"
    /\ maincolors' = [maincolors EXCEPT ![p] = DisplayColors(centers[p])]
    /\ pc' = [pc EXCEPT ![p] = "converted"]
    /\ UNCHANGED <<fs, fname, k, method, shape, imarr, centers, iter, labels,
                   clustered, result>>

\* lines 36-41: cluster_img[i] = maincolors[lab], reshaped to (w, h, 3),
\* times 255 as uint8
ClusterImage(mc, labs, shp) ==
    [shape |-> shp,
     px |-> [i \in DOMAIN labs |->
               LET row == Broadcast3(ArrIndex(mc, labs[i]))
               IN  [j \in 1..3 |-> ToUint8(row[j])]]]

\* lines 36-41: the image is saved as <stem>_clustered.png
SaveClustered(p) ==
    /\ pc[p] = "converted"
    /\ LET png == ClusterImage(maincolors[p], labels[p], shape[p])
       IN  /\ clustered' = [clustered EXCEPT ![p] = png]
           /\ fs' = [fs EXCEPT ![ClusteredName(fname[p])] = png]
    /\ pc' = [pc EXCEPT ![p] = "saved"]
    /\ UNCHANGED <<fname, k, method, shape, imarr, centers, iter, labels,
                   maincolors, result>>

\* lines 43-44
Percent(labs, mc) == Normalized(Histogram(labs, ArrLen(mc)))

\* lines 43-45: return Palette(maincolors.squeeze(), percent)
Return(p) ==
    /\ pc[p] = "saved"
    /\ result' = [result EXCEPT ![p] =
          Outcome("Palette", Squeeze(maincolors[p]), Percent(labels[p], maincolors[p]))]
    /\ pc' = [pc EXCEPT ![p] = "returned"]
    /\ UNCHANGED <<fs, fname, k, method, shape, imarr, centers, iter, labels,
                   maincolors, clustered>>

Next ==
    \E p \in Procs :
        \/ GetPalette(p)
        \/ OpenImage(p)
        \/ FitCheck(p)
        \/ Seed(p)
        \/ LloydIter(p)
        \/ PredictLabels(p)
        \/ ToDisplay(p)
        \/ SaveClustered(p)
        \/ Return(p)

Spec == Init /\ [][Next]_vars
SpecTwoColor == InitTwoColor /\ [][Next]_vars
SpecConc == InitConc /\ [][Next]_vars
\* fit() is a synchronous loop: an iteration that can run does run
FairSpec == Init /\ [][Next]_vars /\ WF_vars(\E p \in Procs : LloydIter(p))

\* ------------------------------------------------------------ properties
Ended(p) == pc[p] \in {"returned", "raised"}
GotPalette(p) == pc[p] = "returned" /\ result[p].kind = "Palette"
Count(labs, j) == Cardinality(Members(labs, j))
Distinct(X) == Cardinality(Range(X))

\* the j-th colour of a palette (j from 1) as 8-bit values
PaletteColor(colors, j) ==
    LET row == ArrIndex(colors, j - 1).data
    IN  [c \in DOMAIN row |-> ToUint8(row[c])]

\* C1: the palette of a k-means extraction has exactly k entries, each
\* proportion is >= 0, and the proportions sum to 1.
C1_PaletteHasKEntries ==
    \A p \in Procs : GotPalette(p) =>
        /\ ArrLen(result[p].colors) = k[p]
        /\ Len(result[p].percent) = k[p]
        /\ \A b \in DOMAIN result[p].percent : result[p].percent[b][1] >= 0
        /\ RSum(result[p].percent) = <<1, 1>>

\* C2: the proportion at index i is (number of samples labelled i) / n,
\* a label without samples keeps its slot with proportion 0.
C2_ProportionIsLabelFrequency ==
    \A p \in Procs : GotPalette(p) =>
        /\ Len(result[p].percent) = k[p]
        /\ \A i \in 0..(k[p] - 1) :
              REq(result[p].percent[i + 1], <<Count(labels[p], i), Len(labels[p])>>)

\* C3: after each iteration of the clustering loop and after clustering,
\* every sample has one label and every label is in [0, k).
Labelled(p) ==
    \/ pc[p] = "lloyd" /\ iter[p] >= 1
    \/ pc[p] \in {"fitted", "predicted", "converted", "saved"}
    \/ GotPalette(p)

C3_AssignmentComplete ==
    \A p \in Procs : Labelled(p) =>
        /\ DOMAIN labels[p] = 1..Len(imarr[p])
        /\ \A i \in DOMAIN labels[p] : labels[p][i] \in 0..(k[p] - 1)

C3_Witness ==
    /\ pc[1] = "lloyd" /\ iter[1] >= 1 /\ k[1] = 3
    /\ Len(imarr[1]) >= 3
    /\ Cardinality(Range(labels[1])) = 3

\* C4: a call with k <= 0 or k > number of samples fails with the error for
\* an invalid k; every call ends with a complete palette or a declared
\* error, and a failed call leaves nothing behind.
C4_PaletteOrDeclaredError ==
    \A p \in Procs : Ended(p) =>
        /\ (/\ method[p] = "k-means"
            /\ fs[fname[p]] # NoFile
            /\ (k[p] <= 0 \/ k[p] > Len(fs[fname[p]].px)))
              => result[p].kind = "KMeansError"
        /\ result[p].kind \in {"Palette", "Delegated", "IOError", "KMeansError"}
        /\ result[p].kind = "Palette" =>
              /\ ArrLen(result[p].colors) = k[p]
              /\ Len(result[p].percent) = k[p]
        /\ pc[p] = "raised" =>
              /\ result[p].colors = EmptyArr /\ result[p].percent = <<>>
              /\ clustered[p] = NoFile

\* C5: two k-means extractions of the same image with the same k yield the
\* same centroids, the same assignments and the same palette.
C5_SameInputSameResult ==
    (/\ GotPalette(1) /\ GotPalette(2)
     /\ imarr[1] = imarr[2] /\ shape[1] = shape[2] /\ k[1] = k[2])
    => /\ \A j \in 1..k[1] : SameCentre(centers[1][j], centers[2][j])
       /\ labels[1] = labels[2]
       /\ result[1] = result[2]

\* C6: two concurrent extractions of different images share no file: when
\* both have returned, each one's clustered image is on disk as it wrote it.
C6_IndependentOutputs ==
    (fname[1] # fname[2] /\ GotPalette(1) /\ GotPalette(2))
    => \A p \in Procs : fs[ClusteredName(fname[p])] = clustered[p]

\* C7: a 70/30 two-colour image with k = 2 yields the two colours, each
\* with the proportion of its own colour, whatever the seeds were.
Pixels(p) == fs[fname[p]].px
PixelCount(p, c) == Cardinality({i \in DOMAIN Pixels(p) : Pixels(p)[i] = c})

C7_TwoColorSplit ==
    \A p \in Procs : Ended(p) =>
        /\ result[p].kind = "Palette"
        /\ ArrLen(result[p].colors) = 2
        /\ Len(result[p].percent) = 2
        /\ \A c \in Range(Pixels(p)) : \E j \in 1..2 :
              /\ PaletteColor(result[p].colors, j) = c
              /\ REq(result[p].percent[j], <<PixelCount(p, c), Len(Pixels(p))>>)
        /\ {result[p].percent[1], result[p].percent[2]} = {<<7, 10>>, <<3, 10>>}

C7_Witness ==
    /\ GotPalette(1)
    /\ Distinct(Pixels(1)) = 2
    /\ result[1].percent = <<<<3, 10>>, <<7, 10>>>>

\* C8: the clustering loop ends; when it ends before the iteration cap the
\* assignments have stopped changing and every sample is assigned to a
\* centroid nearest to it.
IsNearest(x, cs, lab) ==
    \A j \in 1..Len(cs) : ~RLess(Dist2(x, cs[j]), Dist2(x, cs[lab + 1]))

Settled(p) ==
    /\ labels[p] = Predict(imarr[p], centers[p])
    /\ \A i \in DOMAIN imarr[p] : IsNearest(imarr[p][i], centers[p], labels[p][i])

C9_KCentroidsDefined ==
    \A p \in Procs :
        /\ (Labelled(p) /\ k[p] <= Distinct(imarr[p])) =>
              /\ Len(centers[p]) = k[p]
              /\ \A j \in 1..k[p] : centers[p][j].n >= 1
        /\ (pc[p] = "raised" /\ result[p].kind = "KMeansError") =>
              (k[p] < 1 \/ k[p] > Distinct(imarr[p]))

C9_Witness ==
    /\ pc[1] = "lloyd" /\ iter[1] >= 1
    /\ k[1] <= Distinct(imarr[1])
    /\ EmptyClusters(labels[1], k[1]) # {}
    /\ \A j \in 1..k[1] : centers[1][j].n >= 1

\* C10: the preview has the shape of the prepared image, one pixel per
\* sample, pixel i being the display colour of centroid assignments[i];
\* writing it changes neither centroids nor assignments nor colours.
PreviewOf(p) ==
    /\ clustered[p].shape = shape[p]
    /\ DOMAIN clustered[p].px = DOMAIN imarr[p]
    /\ \A i \in DOMAIN imarr[p] :
          clustered[p].px[i] = lab2rgb(centers[p][labels[p][i] + 1])

C10_PreviewIsQuantized ==
    [][\A p \in Procs : (pc[p] = "converted" /\ pc'[p] = "saved") =>
          /\ PreviewOf(p)'
          /\ centers'[p] = centers[p]
          /\ labels'[p] = labels[p]
          /\ maincolors'[p] = maincolors[p]
          /\ result'[p] = result[p]]_vars

====
